---- MODULE Spec2Model ----
(***************************************************************************)
(* Model of apply_loudest_track_gain.py: the per-album gain selection      *)
(* (get_loudest_track_gain, get_album_max_gain, process_album), the tag    *)
(* writer (write_gain) and the batch driver (main) with its thread pool.   *)
(*                                                                         *)
(* Numbers read from a report are decimal numbers; the model keeps them as *)
(* integers counted in thousandths (-3.0 dB is -3000, -999 is -999000).    *)
(***************************************************************************)
EXTENDS Integers, Sequences, FiniteSets, TLC

\* ------------------------------------------------------------------ bounds
MaxRows == 3
MaxFiles == 2
NumDirs == 2

\* --------------------------------------------------------- program constants
\* max_loudness = -999 (in thousandths)
InitMaxLoudness == -999000
\* abs(gain_to_write - album_max_gain) < 0.01 (in thousandths)
Tolerance == 10
\* os.cpu_count() or 2
FallbackThreads == 2
\* os.cpu_count() returning None (falsy, like 0)
CpuUnknown == 0

DEFAULT_CSV == "replaygain.csv"
VALID_EXTENSIONS == {".mp3", ".m4a"}

\* ------------------------------------------------------------ python values
None == [some |-> FALSE, v |-> 0]
Some(x) == [some |-> TRUE, v |-> x]

\* A cell of a csv.DictReader row: text that float() parses, text that it does
\* not parse, or None (restval) when the row is shorter than the header.
Num(n) == [k |-> "num", v |-> n]
Text == [k |-> "text", v |-> 0]
Missing == [k |-> "none", v |-> 0]

\* float(cell): the value, or the exception raised
PyFloat(cell) ==
    CASE cell.k = "num" -> [exc |-> "none", v |-> cell.v]
      [] cell.k = "text" -> [exc |-> "ValueError", v |-> 0]
      [] OTHER -> [exc |-> "TypeError", v |-> 0]

\* str.lower() on the strings of the model
Lower(s) ==
    CASE s = "Album" -> "album"
      [] s = "ALBUM" -> "album"
      [] s = ".MP3" -> ".mp3"
      [] s = ".M4A" -> ".m4a"
      [] OTHER -> s

Abs(x) == IF x < 0 THEN -x ELSE x
Min(a, b) == IF a <= b THEN a ELSE b

\* f"{gain_db:.2f}": thousandths rounded to hundredths, ties to even
FormatGain(g) ==
    LET q == g \div 10
        r == g % 10
    IN  IF r > 5 \/ (r = 5 /\ q % 2 = 1) THEN q + 1 ELSE q

Row(name, loud, gain) == [Filename |-> name, Loudness |-> loud, Gain |-> gain]

\* ---------------------------------------------------- get_loudest_track_gain
RECURSIVE LoudestLoop(_, _, _, _)
LoudestLoop(rows, i, max_loudness, target_gain) ==
    IF i > Len(rows) THEN [ret |-> target_gain, err |-> FALSE]
    ELSE LET row == rows[i]
             l == PyFloat(row.Loudness)
             g == PyFloat(row.Gain)
             exc == IF l.exc # "none" THEN l.exc ELSE g.exc
         IN  IF Lower(row.Filename) = "album"
             THEN LoudestLoop(rows, i + 1, max_loudness, target_gain)
             ELSE IF exc = "ValueError"
             THEN LoudestLoop(rows, i + 1, max_loudness, target_gain)
             ELSE IF exc # "none"
             THEN [ret |-> None, err |-> TRUE]
             ELSE IF l.v > max_loudness
             THEN LoudestLoop(rows, i + 1, l.v, Some(g.v))
             ELSE LoudestLoop(rows, i + 1, max_loudness, target_gain)

\* csv is [state, rows]; state "unreadable" makes open() raise
get_loudest_track_gain(csv) ==
    IF csv.state = "unreadable" THEN [ret |-> None, err |-> TRUE]
    ELSE LoudestLoop(csv.rows, 1, InitMaxLoudness, None)

\* -------------------------------------------------------- get_album_max_gain
RECURSIVE AlbumLoop(_, _)
AlbumLoop(rows, i) ==
    IF i > Len(rows) THEN [ret |-> None, err |-> FALSE]
    ELSE IF Lower(rows[i].Filename) = "album"
    THEN LET g == PyFloat(rows[i].Gain)
         IN  CASE g.exc = "none" -> [ret |-> Some(g.v), err |-> FALSE]
               [] g.exc = "ValueError" -> [ret |-> None, err |-> FALSE]
               [] OTHER -> [ret |-> None, err |-> TRUE]
    ELSE AlbumLoop(rows, i + 1)

get_album_max_gain(csv) ==
    IF csv.state = "unreadable" THEN [ret |-> None, err |-> TRUE]
    ELSE AlbumLoop(csv.rows, 1)

\* ----------------------------------------------------------------- write_gain
\* One call write_gain(file_path, gain_db, dry_run) on a file whose suffix is
\* ext and whose tag is tag; fails says whether the tag library raises.
\* raised tells whether an exception leaves write_gain.
WriteGainUncaught(ext, tag, gain_db, dry, fails) ==
    IF dry THEN [tag |-> tag, logged |-> FALSE, raised |-> FALSE]
    ELSE IF Lower(ext) \in {".m4a", ".mp3"}
    THEN IF fails THEN [tag |-> tag, logged |-> FALSE, raised |-> TRUE]
         ELSE [tag |-> Some(FormatGain(gain_db)), logged |-> FALSE, raised |-> FALSE]
    ELSE [tag |-> tag, logged |-> FALSE, raised |-> FALSE]

WriteGainNoDryRun(ext, tag, gain_db, dry, fails) ==
    IF Lower(ext) \in {".m4a", ".mp3"}
    THEN IF fails THEN [tag |-> tag, logged |-> TRUE, raised |-> FALSE]
         ELSE [tag |-> Some(FormatGain(gain_db)), logged |-> FALSE, raised |-> FALSE]
    ELSE [tag |-> tag, logged |-> FALSE, raised |-> FALSE]

write_gain(ext, tag, gain_db, dry, fails) ==
    IF dry THEN [tag |-> tag, logged |-> FALSE, raised |-> FALSE]
    ELSE IF Lower(ext) \in {".m4a", ".mp3"}
    THEN IF fails THEN [tag |-> tag, logged |-> TRUE, raised |-> FALSE]
         ELSE [tag |-> Some(FormatGain(gain_db)), logged |-> FALSE, raised |-> FALSE]
    ELSE [tag |-> tag, logged |-> FALSE, raised |-> FALSE]

\* -------------------------------------------------------------- process_album
\* gain_to_write = min(loudest_gain, album_max_gain)
GainToWriteMax(loudest, album_max) == IF loudest >= album_max THEN loudest ELSE album_max

GainToWrite(loudest, album_max) == Min(loudest, album_max)

\* abs(gain_to_write - album_max_gain) < 0.01
NoNeedExact(gain, album_max) == gain = album_max

NoNeedToWrite(gain, album_max) == Abs(gain - album_max) < Tolerance

\* file_path.suffix.lower() not in VALID_EXTENSIONS
IsAudio(ext) == Lower(ext) \in VALID_EXTENSIONS

\* The part of process_album before the directory listing: what it reads,
\* decides and logs.
Decide(csv) ==
    LET lg == get_loudest_track_gain(csv)
        ag == get_album_max_gain(csv)
        errs == (IF lg.err THEN <<"read_error">> ELSE <<>>)
                \o (IF ag.err THEN <<"read_error">> ELSE <<>>)
    IN  IF csv.state \in {"absent", "notfile"}
        THEN [outcome |-> "missing_csv", loudest |-> None, album_max |-> None,
              gain |-> None, logs |-> <<"missing_csv">>]
        ELSE IF ~lg.ret.some \/ ~ag.ret.some
        THEN [outcome |-> "no_valid_gain", loudest |-> lg.ret, album_max |-> ag.ret,
              gain |-> None, logs |-> errs \o <<"no_valid_gain">>]
        ELSE IF NoNeedToWrite(GainToWrite(lg.ret.v, ag.ret.v), ag.ret.v)
        THEN [outcome |-> "no_need", loudest |-> lg.ret, album_max |-> ag.ret,
              gain |-> Some(GainToWrite(lg.ret.v, ag.ret.v)),
              logs |-> errs \o <<"no_need_to_write">>]
        ELSE [outcome |-> "write", loudest |-> lg.ret, album_max |-> ag.ret,
              gain |-> Some(GainToWrite(lg.ret.v, ag.ret.v)),
              logs |-> errs \o <<"write">>]

\* ------------------------------------------------------------------- state
VARIABLES
    dry_run,        \* args.dry_run
    cpu_count,      \* what os.cpu_count() returns (CpuUnknown for None)
    csvs,           \* directory -> its replaygain.csv: [state, rows]
    files,          \* directory -> os.listdir order of the suffixes of its files
    tags,           \* directory -> the gain tag stored in each file (None: no tag)
    pc,             \* directory -> where its process_album task stands
    loudest_gain,   \* directory -> process_album's loudest_gain
    album_max_gain, \* directory -> process_album's album_max_gain
    gain_to_write,  \* directory -> process_album's gain_to_write
    pos,            \* directory -> index of the next file of the listing loop
    write_calls,    \* directory -> the calls of write_gain made: <<file, gain>>
    log,            \* directory -> what its task has logged, in order
    main_pc,        \* where main stands
    num_threads,    \* main's num_threads
    album_folders,  \* main's album_folders
    futures,        \* main's futures: the directory of each submitted task
    yielded,        \* the futures as_completed has yielded
    exit_status,    \* "none" while running, then "0" or "1"
    main_log        \* what main has logged, in order

vars == <<dry_run, cpu_count, csvs, files, tags, pc, loudest_gain, album_max_gain,
          gain_to_write, pos, write_calls, log, main_pc, num_threads, album_folders,
          futures, yielded, exit_status, main_log>>

inputs == <<dry_run, cpu_count, csvs, files>>
mainvars == <<main_pc, num_threads, album_folders, futures, yielded, exit_status, main_log>>

Dirs == 1..NumDirs

Finished(p) == p \in {"returned", "raised"}
Active(p) == p \in {"decide", "list", "write"}

\* ----------------------------------------------------- process_album, stepwise
\* lines 93-113: locate and read the report, decide, log
PaDecide(d) ==
    /\ pc[d] = "decide"
    /\ LET dec == Decide(csvs[d])
       IN  /\ loudest_gain' = [loudest_gain EXCEPT ![d] = dec.loudest]
           /\ album_max_gain' = [album_max_gain EXCEPT ![d] = dec.album_max]
           /\ gain_to_write' = [gain_to_write EXCEPT ![d] = dec.gain]
           /\ log' = [log EXCEPT ![d] = @ \o dec.logs]
           /\ pc' = [pc EXCEPT ![d] = IF dec.outcome = "write" THEN "list" ELSE "returned"]
    /\ UNCHANGED <<inputs, tags, pos, write_calls, mainvars>>

\* line 115: os.listdir(folder_path); an OSError leaves process_album
PaList(d) ==
    /\ pc[d] = "list"
    /\ \E list_fails \in BOOLEAN :
         pc' = [pc EXCEPT ![d] = IF list_fails THEN "raised"
                                 ELSE IF Len(files[d]) = 0 THEN "returned"
                                 ELSE "write"]
    /\ pos' = [pos EXCEPT ![d] = 1]
    /\ UNCHANGED <<inputs, tags, loudest_gain, album_max_gain, gain_to_write,
                   write_calls, log, mainvars>>

\* lines 116-119: one iteration of the loop over the listing
PaWrite(d) ==
    /\ pc[d] = "write"
    /\ LET i == pos[d]
           ext == files[d][i]
           last == i = Len(files[d])
       IN  IF ~IsAudio(ext)
           THEN /\ pc' = [pc EXCEPT ![d] = IF last THEN "returned" ELSE "write"]
                /\ UNCHANGED <<tags, write_calls, log>>
           ELSE \E fails \in (IF dry_run THEN {FALSE} ELSE BOOLEAN) :
                  LET w == write_gain(ext, tags[d][i], gain_to_write[d].v, dry_run, fails)
                  IN  /\ tags' = [tags EXCEPT ![d][i] = w.tag]
                      /\ write_calls' = [write_calls EXCEPT
                                           ![d] = Append(@, <<i, gain_to_write[d].v>>)]
                      /\ log' = [log EXCEPT ![d] = IF w.logged
                                                   THEN Append(@, "write_failed") ELSE @]
                      /\ pc' = [pc EXCEPT ![d] = IF w.raised THEN "raised"
                                                 ELSE IF last THEN "returned"
                                                 ELSE "write"]
    /\ pos' = [pos EXCEPT ![d] = @ + 1]
    /\ UNCHANGED <<inputs, loudest_gain, album_max_gain, gain_to_write, mainvars>>


\* ------------------------------------------------------------------- main
\* num_threads = os.cpu_count() or 2
NumThreads(c) == IF c = CpuUnknown THEN FallbackThreads ELSE c

\* lines 135-137: the directories whose filenames hold DEFAULT_CSV, in walk order
RECURSIVE Walk(_)
Walk(n) ==
    IF n = 0 THEN <<>>
    ELSE IF csvs[n].state # "absent" THEN Append(Walk(n - 1), n) ELSE Walk(n - 1)

\* ThreadPoolExecutor(max_workers): a queued task starts only on a free worker
WorkerFreeUnbounded(running, max_workers) == TRUE

WorkerFree(running, max_workers) == running < max_workers

\* lines 150-151: the body of the as_completed loop is pass; the exception a
\* future holds is never retrieved
FutureOutcomeResult(p) == IF p = "raised" THEN "raise" ELSE "pass"

FutureOutcome(p) == "pass"

\* leaving the with block: as_completed has yielded every future, and
\* shutdown(wait=True) has joined the workers
BarrierFirstCompleted(futs, yld, pcs) == yld # {}

BarrierPassed(futs, yld, pcs) ==
    /\ \A i \in 1..Len(futs) : futs[i] \in yld
    /\ \A i \in 1..Len(futs) : Finished(pcs[futs[i]])

SeqToSet(s) == {s[i] : i \in 1..Len(s)}

Running == {d \in Dirs : Active(pc[d])}

taskvars == <<tags, pc, loudest_gain, album_max_gain, gain_to_write, pos, write_calls, log>>

\* lines 131-139
MainWalk ==
    /\ main_pc = "start"
    /\ num_threads' = NumThreads(cpu_count)
    /\ album_folders' = Walk(NumDirs)
    /\ main_log' = Append(main_log, "threads")
    /\ main_pc' = "walked"
    /\ UNCHANGED <<inputs, taskvars, futures, yielded, exit_status>>

\* lines 141-144
MainNoAlbums ==
    /\ main_pc = "walked"
    /\ album_folders = <<>>
    /\ main_log' = main_log \o <<"no_albums", "completed">>
    /\ main_pc' = "done"
    /\ exit_status' = "0"
    /\ UNCHANGED <<inputs, taskvars, num_threads, album_folders, futures, yielded>>

\* lines 146-148
MainFound ==
    /\ main_pc = "walked"
    /\ album_folders # <<>>
    /\ main_log' = Append(main_log, "found")
    /\ main_pc' = "submitting"
    /\ UNCHANGED <<inputs, taskvars, num_threads, album_folders, futures, yielded,
                   exit_status>>

\* line 149: one executor.submit(process_album, folder, dry_run)
MainSubmit ==
    /\ main_pc = "submitting"
    /\ LET folder == album_folders[Len(futures) + 1]
       IN  /\ futures' = Append(futures, folder)
           /\ pc' = [pc EXCEPT ![folder] = "queued"]
    /\ main_pc' = IF Len(futures) + 1 = Len(album_folders) THEN "waiting" ELSE "submitting"
    /\ UNCHANGED <<inputs, tags, loudest_gain, album_max_gain, gain_to_write, pos,
                   write_calls, log, num_threads, album_folders, yielded, exit_status,
                   main_log>>

\* a pool worker takes the oldest queued task
WorkerStart(d) ==
    /\ pc[d] = "queued"
    /\ \A i \in 1..Len(futures) :
         pc[futures[i]] = "queued" => \E j \in 1..i : futures[j] = d
    /\ WorkerFree(Cardinality(Running), num_threads)
    /\ pc' = [pc EXCEPT ![d] = "decide"]
    /\ UNCHANGED <<inputs, tags, loudest_gain, album_max_gain, gain_to_write, pos,
                   write_calls, log, mainvars>>

\* lines 150-151: as_completed yields a finished future
MainCollect(d) ==
    /\ main_pc = "waiting"
    /\ d \in SeqToSet(futures) \ yielded
    /\ Finished(pc[d])
    /\ IF FutureOutcome(pc[d]) = "raise"
       THEN /\ main_pc' = "crashed"
            /\ exit_status' = "1"
            /\ UNCHANGED yielded
       ELSE /\ yielded' = yielded \cup {d}
            /\ UNCHANGED <<main_pc, exit_status>>
    /\ UNCHANGED <<inputs, taskvars, num_threads, album_folders, futures, main_log>>

\* the end of the with block, then line 153
MainFinish ==
    /\ main_pc = "waiting"
    /\ BarrierPassed(futures, yielded, pc)
    /\ main_log' = Append(main_log, "completed")
    /\ main_pc' = "done"
    /\ exit_status' = "0"
    /\ UNCHANGED <<inputs, taskvars, num_threads, album_folders, futures, yielded>>

\* ------------------------------------------------------------------ inputs
SeqsUpTo(S, n) == UNION {[1..k -> S] : k \in 0..n}

\* rows of the reports of the gain-selection specification
SelRows ==
    {Row("t", Num(l), Num(g)) : l \in {-1000000, -10000, -8000}, g \in {-3000, -2996}}
    \cup {Row("t", Text, Num(-3000)), Row("t", Num(-8000), Text),
          Row("t", Num(-8000), Missing), Row("t", Missing, Missing)}
    \cup {Row("album", Text, Num(-2990)), Row("Album", Text, Num(-3500)),
          Row("album", Text, Text), Row("ALBUM", Missing, Missing)}

\* rows of the reports of the single-album specification
AlbumRows ==
    {Row("t", Num(-8000), Num(-3000)), Row("t", Num(-8000), Num(-2996)),
     Row("t", Num(-10000), Num(-2500)), Row("t", Num(-1000000), Num(-3200)),
     Row("t", Num(-8000), Missing),
     Row("Album", Text, Num(-2990)), Row("album", Text, Text)}

Suffixes == {".mp3", ".M4A", ".csv"}

Csv(state, rows) == [state |-> state, rows |-> rows]
NoCsv == Csv("absent", <<>>)

\* the album directories of the batch specification: [csv, files]
Fixtures ==
    { [csv |-> NoCsv, files |-> <<".mp3">>],
      [csv |-> Csv("notfile", <<>>), files |-> <<".csv", ".mp3">>],
      [csv |-> Csv("unreadable", <<>>), files |-> <<".csv", ".m4a">>],
      [csv |-> Csv("ok", <<Row("a", Num(-10000), Num(-2000)),
                           Row("b", Num(-8000), Num(-3000)),
                           Row("album", Text, Num(-2500))>>),
       files |-> <<".mp3", ".M4A">>],
      [csv |-> Csv("ok", <<Row("a", Num(-9000), Num(-4000)),
                           Row("Album", Text, Num(-3500))>>),
       files |-> <<".csv", ".MP3">>] }

CpuCounts == {CpuUnknown, 1, 3}

\* everything but the inputs, before anything has run; p is the position of
\* the task of directory 1
InitRest(p) ==
    /\ tags = [d \in Dirs |-> [i \in 1..Len(files[d]) |-> None]]
    /\ pc = [d \in Dirs |-> IF d = 1 THEN p ELSE "idle"]
    /\ loudest_gain = [d \in Dirs |-> None]
    /\ album_max_gain = [d \in Dirs |-> None]
    /\ gain_to_write = [d \in Dirs |-> None]
    /\ pos = [d \in Dirs |-> 0]
    /\ write_calls = [d \in Dirs |-> <<>>]
    /\ log = [d \in Dirs |-> <<>>]
    /\ num_threads = 0
    /\ album_folders = <<>>
    /\ futures = <<>>
    /\ yielded = {}
    /\ exit_status = "none"
    /\ main_log = <<>>

\* main over a tree of NumDirs directories
Init ==
    /\ dry_run \in BOOLEAN
    /\ cpu_count \in CpuCounts
    /\ \E f \in [Dirs -> Fixtures] :
         /\ csvs = [d \in Dirs |-> f[d].csv]
         /\ files = [d \in Dirs |-> f[d].files]
    /\ main_pc = "start"
    /\ InitRest("idle")

Next ==
    \/ MainWalk
    \/ MainNoAlbums
    \/ MainFound
    \/ MainSubmit
    \/ MainFinish
    \/ \E d \in Dirs : WorkerStart(d)
    \/ \E d \in Dirs : PaDecide(d)
    \/ \E d \in Dirs : PaList(d)
    \/ \E d \in Dirs : PaWrite(d)
    \/ \E d \in Dirs : MainCollect(d)

Spec == Init /\ [][Next]_vars

\* the threads of the pool and the main thread all keep running
FairSpec == Spec /\ WF_vars(Next)

\* process_album called on one directory (directory 1)
AlbumInit ==
    /\ dry_run \in BOOLEAN
    /\ cpu_count = CpuUnknown
    /\ \E c \in {Csv("notfile", <<>>), Csv("unreadable", <<>>)}
               \cup {Csv("ok", r) : r \in SeqsUpTo(AlbumRows, MaxRows)} :
         csvs = [d \in Dirs |-> IF d = 1 THEN c ELSE NoCsv]
    /\ \E l \in SeqsUpTo(Suffixes, MaxFiles) :
         files = [d \in Dirs |-> IF d = 1 THEN l ELSE <<>>]
    /\ main_pc = "call"
    /\ InitRest("decide")

AlbumNext == PaDecide(1) \/ PaList(1) \/ PaWrite(1)

AlbumSpec == AlbumInit /\ [][AlbumNext]_vars

\* the gain selection of process_album on one report
SelInit ==
    /\ dry_run = FALSE
    /\ cpu_count = CpuUnknown
    /\ \E r \in SeqsUpTo(SelRows, MaxRows) :
         csvs = [d \in Dirs |-> IF d = 1 THEN Csv("ok", r) ELSE NoCsv]
    /\ files = [d \in Dirs |-> <<>>]
    /\ main_pc = "call"
    /\ InitRest("decide")

SelNext == PaDecide(1)

SelSpec == SelInit /\ [][SelNext]_vars

\* ------------------------------------------------- what the claims speak of
IsAlbumRow(row) == row.Filename \in {"album", "Album", "ALBUM"}
IsValidTrack(row) == ~IsAlbumRow(row) /\ row.Loudness.k = "num" /\ row.Gain.k = "num"
IsMalformedTrack(row) == ~IsAlbumRow(row) /\ ~IsValidTrack(row)
KeepRow(row) == ~IsMalformedTrack(row)

ValidTracks(rows) == {i \in 1..Len(rows) : IsValidTrack(rows[i])}
Loudest(rows) ==
    {i \in ValidTracks(rows) :
        \A j \in ValidTracks(rows) : rows[j].Loudness.v <= rows[i].Loudness.v}
FirstOf(S) == CHOOSE i \in S : \A j \in S : i <= j
\* the gain of the first row, in file order, that carries the maximum loudness
LoudestTrackGain(rows) == rows[FirstOf(Loudest(rows))].Gain.v

AlbumRowsOf(rows) == {i \in 1..Len(rows) : IsAlbumRow(rows[i])}
HasCeiling(rows) ==
    AlbumRowsOf(rows) # {} /\ rows[FirstOf(AlbumRowsOf(rows))].Gain.k = "num"
Ceiling(rows) == rows[FirstOf(AlbumRowsOf(rows))].Gain.v

AudioSuffix(ext) == ext \in {".mp3", ".MP3", ".m4a", ".M4A"}
AudioFiles(d) == {i \in 1..Len(files[d]) : AudioSuffix(files[d][i])}
RECURSIVE CallsFrom(_, _, _)
CallsFrom(d, i, g) ==
    IF i > Len(files[d]) THEN <<>>
    ELSE IF AudioSuffix(files[d][i]) THEN <<(<<i, g>>)>> \o CallsFrom(d, i + 1, g)
    ELSE CallsFrom(d, i + 1, g)
Count(s, x) == Cardinality({i \in 1..Len(s) : s[i] = x})
Logged(d, x) == Count(log[d], x) > 0
Decided(d) == pc[d] \in {"list", "write", "returned", "raised"}

\* C1: for a report with a valid track row and an album row with numeric gain C,
\* process_album computes gain_to_write = min(G, C), G being the gain of the
\* track row with the maximum loudness, whatever the loudness values are.
C1_GainIsMinOfLoudestAndCeiling ==
    LET rows == csvs[1].rows
    IN  (Decided(1) /\ csvs[1].state = "ok" /\ ValidTracks(rows) # {} /\ HasCeiling(rows))
        => gain_to_write[1] = Some(Min(LoudestTrackGain(rows), Ceiling(rows)))

\* C2: when several valid track rows carry the maximum loudness,
\* get_loudest_track_gain returns the gain of the first of them in file order.
C2_FirstMaxWins ==
    LET rows == csvs[1].rows
    IN  (Decided(1) /\ csvs[1].state = "ok" /\ Cardinality(Loudest(rows)) >= 2)
        => loudest_gain[1] = Some(LoudestTrackGain(rows))

\* C3: when the computed gain_to_write differs from the album ceiling by less
\* than 0.01, process_album calls write_gain on no file and logs "No need to
\* write", with and without dry-run.
C3_NoWriteWithinTolerance ==
    \A d \in Dirs :
        (gain_to_write[d].some /\ Abs(gain_to_write[d].v - album_max_gain[d].v) < 10)
        => /\ write_calls[d] = <<>>
           /\ tags[d] = [i \in 1..Len(files[d]) |-> None]
           /\ pc[d] = "returned"
           /\ Logged(d, "no_need_to_write")
           /\ ~Logged(d, "write")

C3_Witness ==
    /\ ~dry_run
    /\ pc[1] = "returned"
    /\ gain_to_write[1].some
    /\ gain_to_write[1].v # album_max_gain[1].v
    /\ Abs(gain_to_write[1].v - album_max_gain[1].v) < 10
    /\ AudioFiles(1) # {}
    /\ write_calls[1] = <<>>

\* C4: with dry-run set, no step of a run of main changes the tag or contents
\* of any file.
C4_DryRunLeavesFilesUnchanged == [][dry_run => tags' = tags]_vars

C4_Witness ==
    /\ dry_run
    /\ main_pc = "done"
    /\ \E d \in Dirs : Len(write_calls[d]) >= 2

\* C5: a track row with a malformed loudness or gain cell (a missing cell of a
\* short row included) is left out of the selection and parsing goes on: the
\* gain returned is the one the remaining rows give, and no read error is
\* reported for the report.
C5_MalformedRowsExcluded ==
    LET rows == csvs[1].rows
        kept == SelectSeq(rows, KeepRow)
    IN  (Decided(1) /\ csvs[1].state = "ok" /\ kept # rows)
        => /\ loudest_gain[1] = get_loudest_track_gain(Csv("ok", kept)).ret
           /\ (\A i \in AlbumRowsOf(rows) : rows[i].Gain.k # "none")
                 => ~Logged(1, "read_error")

\* C6: when an album directory is found, main submits exactly one task per
\* discovered album directory, reaches its completion step only after every
\* submitted task has returned or raised, and every task and main do finish.
C6_BarrierAndTermination ==
    /\ [](main_pc \in {"waiting", "done"} /\ album_folders # <<>>
            => /\ SeqToSet(futures) = {d \in Dirs : csvs[d].state # "absent"}
               /\ Len(futures) = Cardinality(SeqToSet(futures)))
    /\ [](main_pc = "done" => \A d \in SeqToSet(futures) : Finished(pc[d]))
    /\ [](\A d \in Dirs : d \notin SeqToSet(futures) => pc[d] = "idle")
    /\ (main_pc = "walked" /\ album_folders # <<>>)
          ~> (main_pc = "done" /\ \A d \in SeqToSet(album_folders) : Finished(pc[d]))

C6_Witness ==
    /\ main_pc = "done"
    /\ Len(futures) >= 2
    /\ \E d \in Dirs : pc[d] = "raised"
    /\ \E d \in Dirs : pc[d] = "returned" /\ write_calls[d] # <<>>

\* C7: no failure inside an album task reaches main or another task: main
\* never stops on an exception and ends with status 0, and every album that
\* returns has made exactly the calls its own report and listing ask for.
C7_FailuresDoNotPropagate ==
    /\ main_pc # "crashed"
    /\ exit_status # "1"
    /\ main_pc = "done" => /\ exit_status = "0"
                           /\ \A d \in SeqToSet(album_folders) : Finished(pc[d])
    /\ \A d \in Dirs :
         pc[d] = "returned"
         => LET rows == csvs[d].rows
            IN  IF Logged(d, "write")
                THEN write_calls[d] = CallsFrom(d, 1, LoudestTrackGain(rows))
                ELSE write_calls[d] = <<>>

C7_Witness ==
    /\ main_pc = "done"
    /\ exit_status = "0"
    /\ \E d \in Dirs : pc[d] = "raised"
    /\ \E d \in Dirs : /\ pc[d] = "returned"
                       /\ Logged(d, "write_failed")
                       /\ Len(write_calls[d]) >= 2
    /\ Count(main_log, "completed") = 1

\* C8: in a non-dry-run album that decides to write, a failing tag write is
\* caught and logged and write_gain is still called, with the same gain, on
\* every other .mp3/.m4a file of the directory, wherever the failing file is.
C8_WriteFailureIsolated ==
    /\ pc[1] = "raised" => write_calls[1] = <<>>
    /\ (pc[1] = "returned" /\ Logged(1, "write"))
         => /\ write_calls[1] = CallsFrom(1, 1, gain_to_write[1].v)
            /\ ~dry_run =>
                 Count(log[1], "write_failed")
                   = Cardinality({i \in AudioFiles(1) : tags[1][i] = None})

C8_Witness ==
    /\ ~dry_run
    /\ pc[1] = "returned"
    /\ Len(write_calls[1]) = 2
    /\ Count(log[1], "write_failed") = 1
    /\ tags[1][write_calls[1][1][1]] = None
    /\ tags[1][write_calls[1][2][1]] # None

\* C9 as stated: the worker count is the parallelism the platform reports, is
\* never less than 2, and bounds the number of tasks running at once.
C9_WorkersAtLeastTwo ==
    main_pc # "start"
    => /\ cpu_count # CpuUnknown => num_threads = cpu_count
       /\ num_threads >= 2
       /\ Cardinality(Running) <= num_threads

\* C9 as amended: the worker count is the parallelism the platform reports, or
\* 2 when the platform reports none; it is at least 1 and bounds the number of
\* tasks running at once.
C9_WorkersFromCpuCount ==
    /\ main_pc # "start"
       => /\ num_threads = (IF cpu_count \in {1, 2, 3} THEN cpu_count ELSE 2)
          /\ num_threads >= 1
    /\ Cardinality(Running) <= num_threads

C9_Witness ==
    /\ cpu_count = 1
    /\ num_threads = 1
    /\ Cardinality(Running) = 1
    /\ \E d \in Dirs : pc[d] = "queued"

\* C10: every gain passed to write_gain is the loudest-track gain of the
\* album, lies below the album ceiling by at least 0.01 and is the same for
\* all files of the album; nothing is passed for an album that lacks a
\* loudest-track gain or a ceiling.
C10_WrittenGainIsLoudestBelowCeiling ==
    \A d \in Dirs :
        \A k \in 1..Len(write_calls[d]) :
            LET rows == csvs[d].rows
                g == write_calls[d][k][2]
            IN  /\ csvs[d].state = "ok"
                /\ ValidTracks(rows) # {}
                /\ HasCeiling(rows)
                /\ g = LoudestTrackGain(rows)
                /\ g <= Ceiling(rows) - 10
                /\ g = write_calls[d][1][2]

C10_Witness ==
    /\ pc[1] = "returned"
    /\ Len(write_calls[1]) = 2
    /\ write_calls[1][2][2] = Ceiling(csvs[1].rows) - 10
    /\ Cardinality(Loudest(csvs[1].rows)) >= 2

====
